---------------------------- MODULE Spec2Model ----------------------------
(***************************************************************************)
(* The CRM pallet of PolkaMusic-Core (pallets/crm/src/lib.rs): the         *)
(* CrmData double map, the new_crmdata dispatchable and its two helpers    *)
(* json_check_validity and json_get_value.                                 *)
(*                                                                         *)
(* A byte is a one-character string; a Vec<u8> is a sequence of bytes.     *)
(* The only byte that is not ASCII is the token NonUtf8, which stands for  *)
(* the single byte 0xFF (never valid in UTF-8).                            *)
(***************************************************************************)
EXTENDS Integers, Sequences, FiniteSets, TLC

VARIABLES
    CrmData,      \* the double map (AccountId, u32) -> Option<Vec<u8>>
    events,       \* the events deposited so far, oldest first
    dispatched,   \* <<>>, or <<r>>: the last new_crmdata call, its result and the state it ran in
    composed,     \* <<>>, or <<d>>: how the caller composed the last crmdata (its fields)
    fcall,        \* <<>>, or <<c>>: the arguments of a direct call of a helper function
    fret,         \* <<>>, or <<v>>: what that call returned
    pending       \* per executor: <<>>, or <<c>>: a call past its checks, not yet at its insert

vars == <<CrmData, events, dispatched, composed, fcall, fret, pending>>

----------------------------------------------------------------------------
(* Bounds of the model *)

\* accounts are 1..MaxOwner
MaxOwner == 2
\* contract ids are 0..MaxCrmId (0 is the id the pallet refuses)
MaxCrmId == 2
\* the ledger machine stops submitting once this many records are stored
MaxRecords == 2
\* longest value of the extractor's round-trip documents
MaxValLen == 3
\* most characters (plain or escaped) of a string of the validator's documents
MaxItems == 2
\* longest of the documents made of arbitrary bytes
MaxDocLen == 4
\* executors that may run new_crmdata at the same time, where that is allowed
MaxInFlight == 2

Owners == 1..MaxOwner
CrmIds == 0..MaxCrmId
Executors == 1..MaxInFlight

----------------------------------------------------------------------------
(* Bytes *)

QUOTE == "\""
BACKSLASH == "\\"
NonUtf8 == "0xFF"
DigitChar == <<"0", "1", "2", "3", "4", "5", "6", "7", "8", "9">>
IsDigit(b) == \E n \in 1..10 : DigitChar[n] = b
DigitVal(b) == (CHOOSE n \in 1..10 : DigitChar[n] = b) - 1

None == <<>>
Some(v) == <<v>>

\* the field names new_crmdata looks up
K_ipfshash == <<"i","p","f","s","h","a","s","h">>
K_ipfshashprivate == <<"i","p","f","s","h","a","s","h","p","r","i","v","a","t","e">>
K_globalquorum == <<"g","l","o","b","a","l","q","u","o","r","u","m">>
K_mastershare == <<"m","a","s","t","e","r","s","h","a","r","e">>
K_masterquorum == <<"m","a","s","t","e","r","q","u","o","r","u","m">>
K_compositionshare == <<"c","o","m","p","o","s","i","t","i","o","n","s","h","a","r","e">>
K_compositionquorum == <<"c","o","m","p","o","s","i","t","i","o","n","q","u","o","r","u","m">>
K_othercontractsshare == <<"o","t","h","e","r","c","o","n","t","r","a","c","t","s","s","h","a","r","e">>
K_othercontractsquorum == <<"o","t","h","e","r","c","o","n","t","r","a","c","t","s","q","u","o","r","u","m">>
\* the key new_crmdata searches for the crowd funding share (lib.rs line 240)
K_crodwfundingshares == <<"c","r","o","d","w","f","u","n","d","i","n","g","s","h","a","r","e","s">>
\* the key the schema comment documents for it (lib.rs line 105)
K_crowdfundingshare == <<"c","r","o","w","d","f","u","n","d","i","n","g","s","h","a","r","e">>

----------------------------------------------------------------------------
(* json_check_validity, lib.rs 267-346 *)

\* the flags before the scan: s (outside a string), d (colon), pg ({} closed),
\* ps ([] closed), bp (previous byte)
cv_init == [s |-> TRUE, d |-> TRUE, pg |-> TRUE, ps |-> TRUE, bp |-> " "]

\* lines 295-303
cv_brackets(ps, s, b) ==
    LET ps1 == IF b = "[" /\ s THEN FALSE ELSE ps
    IN  IF b = "]" /\ s /\ ps1 = FALSE THEN TRUE
        ELSE IF b = "]" /\ s /\ ps1 = TRUE THEN FALSE
        ELSE ps1

\* lines 304-312
cv_braces(pg, s, b) ==
    LET pg1 == IF b = "{" /\ s THEN FALSE ELSE pg
    IN  IF b = "}" /\ s /\ pg1 = FALSE THEN TRUE
        ELSE IF b = "}" /\ s /\ pg1 = TRUE THEN FALSE
        ELSE pg1

\* one iteration of the loop of lines 294-331
cv_step(st, b) ==
    LET ps2 == cv_brackets(st.ps, st.s, b)
        pg2 == cv_braces(st.pg, st.s, b)
    IN  IF b = QUOTE /\ st.s /\ st.bp # BACKSLASH
          THEN [s |-> FALSE, d |-> FALSE, pg |-> pg2, ps |-> ps2, bp |-> b]
        ELSE IF b = ":" /\ st.s
          THEN [s |-> st.s, d |-> TRUE, pg |-> pg2, ps |-> ps2, bp |-> b]
        ELSE IF b = QUOTE /\ ~st.s /\ st.bp # BACKSLASH
          THEN [s |-> TRUE, d |-> TRUE, pg |-> pg2, ps |-> ps2, bp |-> b]
        ELSE [s |-> st.s, d |-> st.d, pg |-> pg2, ps |-> ps2, bp |-> b]

\* e, once v has been evaluated (v = v is TRUE: it only fixes the order)
After(v, e) == IF v = v THEN e ELSE e

\* the loop over j[lo..hi], left to right; the range is halved and the left half
\* evaluated first, which keeps the evaluation shallow
RECURSIVE cv_scan(_, _, _, _)
cv_scan(j, st, lo, hi) ==
    IF lo > hi THEN st
    ELSE IF lo = hi THEN cv_step(st, j[lo])
    ELSE LET mid == (lo + hi) \div 2
             left == cv_scan(j, st, lo, mid)
         IN  After(left, cv_scan(j, left, mid + 1, hi))

\* the flags after the whole scan
cv_flags(j) == cv_scan(j, cv_init, 1, Len(j))

\* cv_final with pg checked as well
cv_final_with_pg(st) == st.s /\ st.d /\ st.ps /\ st.pg

\* lines 333-345: the flags that decide the result
cv_final(st) == st.s /\ st.d /\ st.ps

\* json_check_validity without the two checks of lines 273-279
json_check_validity_unpaired(j) ==
    IF Len(j) < 2 THEN FALSE
    ELSE IF j[1] # "{" /\ j[1] # "[" THEN FALSE
    ELSE IF j[Len(j)] # "}" /\ j[Len(j)] # "]" THEN FALSE
    ELSE cv_final(cv_flags(j))

json_check_validity(j) ==
    IF Len(j) < 2 THEN FALSE
    ELSE IF j[1] = "{" /\ j[Len(j)] # "}" THEN FALSE
    ELSE IF j[1] = "[" /\ j[Len(j)] # "]" THEN FALSE
    ELSE IF j[1] # "{" /\ j[1] # "[" THEN FALSE
    ELSE IF j[Len(j)] # "}" /\ j[Len(j)] # "]" THEN FALSE
    ELSE cv_final(cv_flags(j))

----------------------------------------------------------------------------
(* json_get_value, lib.rs 348-406 *)

\* lines 350-358: the pattern "key":
gv_pattern(key) == <<QUOTE>> \o key \o <<QUOTE, ":">>

\* lines 360-372: the offsets x (0-based) at which all kl bytes match
gv_matches(j, k) ==
    {x \in 0..(Len(j) - Len(k)) : \A t \in 1..Len(k) : j[x + t] = k[t]}

gv_init == [lb |-> " ", op |-> TRUE, os |-> TRUE, result |-> <<>>, brk |-> FALSE]

\* gv_step with the closing brace ending the value inside a string as well
gv_step_brace_in_string(st, b) ==
    IF st.brk THEN st
    ELSE
    LET os1 == IF b = "[" /\ st.op /\ st.os THEN FALSE ELSE st.os
        os2 == IF b = "}" /\ st.op /\ os1 = FALSE THEN TRUE ELSE os1
    IN  IF b = ":" /\ st.op
          THEN [st EXCEPT !.os = os2]
        ELSE IF b = QUOTE /\ st.op /\ st.lb # BACKSLASH
          THEN [st EXCEPT !.os = os2, !.op = FALSE]
        ELSE IF b = QUOTE /\ ~st.op /\ st.lb # BACKSLASH
          THEN [st EXCEPT !.os = os2, !.brk = TRUE]
        ELSE IF b = "}"
          THEN [st EXCEPT !.os = os2, !.brk = TRUE]
        ELSE IF b = "," /\ st.op /\ os2
          THEN [st EXCEPT !.os = os2, !.brk = TRUE]
        ELSE [st EXCEPT !.os = os2, !.result = Append(st.result, b), !.lb = b]

\* one iteration of the loop of lines 376-401; brk records that the loop was left
gv_step(st, b) ==
    IF st.brk THEN st
    ELSE
    LET os1 == IF b = "[" /\ st.op /\ st.os THEN FALSE ELSE st.os
        os2 == IF b = "}" /\ st.op /\ os1 = FALSE THEN TRUE ELSE os1
    IN  IF b = ":" /\ st.op
          THEN [st EXCEPT !.os = os2]
        ELSE IF b = QUOTE /\ st.op /\ st.lb # BACKSLASH
          THEN [st EXCEPT !.os = os2, !.op = FALSE]
        ELSE IF b = QUOTE /\ ~st.op /\ st.lb # BACKSLASH
          THEN [st EXCEPT !.os = os2, !.brk = TRUE]
        ELSE IF b = "}" /\ st.op
          THEN [st EXCEPT !.os = os2, !.brk = TRUE]
        ELSE IF b = "," /\ st.op /\ os2
          THEN [st EXCEPT !.os = os2, !.brk = TRUE]
        ELSE [st EXCEPT !.os = os2, !.result = Append(st.result, b), !.lb = b]

RECURSIVE gv_scan(_, _, _, _)
gv_scan(j, st, lo, hi) ==
    IF lo > hi \/ st.brk THEN st
    ELSE IF lo = hi THEN gv_step(st, j[lo])
    ELSE LET mid == (lo + hi) \div 2
             left == gv_scan(j, st, lo, mid)
         IN  After(left, gv_scan(j, left, mid + 1, hi))

json_get_value(j, key) ==
    LET k == gv_pattern(key)
        hits == gv_matches(j, k)
    IN  IF hits = {} THEN <<>>
        ELSE LET x == CHOOSE h \in hits : \A g \in hits : h <= g
                 \* for i in x+kl..jl-1 (0-based, jl-1 excluded)
             IN  gv_scan(j, gv_init, x + Len(k) + 1, Len(j) - 1).result

----------------------------------------------------------------------------
(* What can panic in the two helpers: j.get(i).unwrap() with i outside j,   *)
(* and a usize subtraction going below 0.  Indices are 0-based, as in the   *)
(* code.                                                                    *)

\* lines 273-285: the indices json_check_validity unwraps before the scan
\* (the scan itself iterates over j and indexes nothing)
cv_unwraps(j) == IF Len(j) < 2 THEN {} ELSE {0, Len(j) - 1}

\* line 273: j.len()-1 is evaluated only after the return of lines 269-271
cv_underflows(j) == ~(Len(j) < 2) /\ Len(j) - 1 < 0

json_check_validity_panics(j) ==
    \/ cv_underflows(j)
    \/ \E i \in cv_unwraps(j) : i \notin 0..(Len(j) - 1)

\* gv_windows without the break of lines 363-365
gv_windows_unbounded(j, k) ==
    LET hits == gv_matches(j, k)
    IN  {x \in 0..(Len(j) - 1) : \A h \in hits : x <= h}

\* lines 360-372: the offsets x at which the comparison loop of lines 366-371
\* runs: those with x+kl <= jl, up to the first match
gv_windows(j, k) ==
    LET hits == gv_matches(j, k)
    IN  {x \in 0..(Len(j) - 1) : x + Len(k) <= Len(j) /\ \A h \in hits : x <= h}

\* the first match among the windows, as a set of at most one offset
gv_found(j, k) ==
    {x \in gv_windows(j, k) : \A t \in 1..Len(k) : x + t <= Len(j) /\ j[x + t] = k[t]}

\* lines 367 and 377-400: the indices of j that are unwrapped
gv_unwraps(j, k) ==
    UNION {x..(x + Len(k) - 1) : x \in gv_windows(j, k)}
      \cup UNION {(x + Len(k))..(Len(j) - 2) : x \in gv_found(j, k)}

\* line 376: jl-1 is evaluated when a match is found
gv_underflows(j, k) == gv_found(j, k) # {} /\ Len(j) - 1 < 0

json_get_value_panics(j, key) ==
    LET k == gv_pattern(key)
    IN  \/ gv_underflows(j, k)
        \/ \E i \in gv_unwraps(j, k) : i \notin 0..(Len(j) - 1)

----------------------------------------------------------------------------
(* str::from_utf8 and u64::from_str, as lines 146-153 use them *)

from_utf8_ok(v) == \A n \in 1..Len(v) : v[n] # NonUtf8

\* u64::MAX = 18446744073709551615
U64MaxDigits == <<1,8,4,4,6,7,4,4,0,7,3,7,0,9,5,5,1,6,1,5>>

RECURSIVE strip_zeros(_)
strip_zeros(ds) == IF ds # <<>> /\ ds[1] = 0 THEN strip_zeros(Tail(ds)) ELSE ds

\* ds > U64MaxDigits as numbers, for ds without leading zeros
exceeds_u64(ds) ==
    \/ Len(ds) > 20
    \/ /\ Len(ds) = 20
       /\ \E n \in 1..20 : /\ ds[n] > U64MaxDigits[n]
                           /\ \A m \in 1..(n - 1) : ds[m] = U64MaxDigits[m]

\* values of ten digits or more are all kept as this one: every comparison made
\* of a decoded value (> 0, <= 100) gives the same answer for all of them
Saturated == 1000000000

RECURSIVE digits_value(_)
digits_value(ds) ==
    IF ds = <<>> THEN 0 ELSE 10 * digits_value(SubSeq(ds, 1, Len(ds) - 1)) + ds[Len(ds)]

\* u64::from_str: [ok, val]; an optional '+', then one or more decimal digits
u64_from_str(v) ==
    LET body == IF v # <<>> /\ v[1] = "+" THEN Tail(v) ELSE v
    IN  IF body = <<>> \/ \E n \in 1..Len(body) : ~IsDigit(body[n])
          THEN [ok |-> FALSE, val |-> 0]
        ELSE LET ds == strip_zeros([n \in 1..Len(body) |-> DigitVal(body[n])])
             IN  IF exceeds_u64(ds) THEN [ok |-> FALSE, val |-> 0]
                 ELSE IF Len(ds) > 9 THEN [ok |-> TRUE, val |-> Saturated]
                 ELSE [ok |-> TRUE, val |-> digits_value(ds)]

\* lines 146-153 (and the seven copies of them): the decoded field, or the fallback
decode_u64(v, fallback) ==
    IF ~from_utf8_ok(v) THEN fallback
    ELSE LET r == u64_from_str(v) IN IF r.ok THEN r.val ELSE fallback

----------------------------------------------------------------------------
(* new_crmdata, lib.rs 112-263 *)

MinCrmDataLen == 8
MaxCrmDataLen == 8192
MinIpfsHashLen == 4
MaxPercent == 100

\* lines 131-249, the values new_crmdata takes out of crmdata: what
\* json_check_validity says, the two hashes, and the eight decoded numbers
crmdata_fields(crmdata) ==
    [ valid |-> json_check_validity(crmdata),
      ipfshash |-> json_get_value(crmdata, K_ipfshash),
      ipfshashprivate |-> json_get_value(crmdata, K_ipfshashprivate),
      globalquorumvalue |-> decode_u64(json_get_value(crmdata, K_globalquorum), 0),
      mastersharevalue |-> decode_u64(json_get_value(crmdata, K_mastershare), 0),
      masterquorumvalue |-> decode_u64(json_get_value(crmdata, K_masterquorum), 0),
      compositionsharevalue |->
          decode_u64(json_get_value(crmdata, K_compositionshare), 0),
      compositionquorumvalue |->
          decode_u64(json_get_value(crmdata, K_compositionquorum), 0),
      othercontractssharevalue |->
          decode_u64(json_get_value(crmdata, K_othercontractsshare), 100),
      othercontractsquorumvalue |->
          decode_u64(json_get_value(crmdata, K_othercontractsquorum), 100),
      crodwfundingsharevalue |->
          decode_u64(json_get_value(crmdata, K_crodwfundingshares), 0) ]

\* totalshares without the crowd funding share
totalshares_without_crowd(f) ==
    f.mastersharevalue + f.compositionsharevalue + f.othercontractssharevalue

\* line 252
totalshares(f) ==
    f.mastersharevalue + f.compositionsharevalue
        + f.othercontractssharevalue + f.crodwfundingsharevalue

\* crmdata_checks with the master quorum checked before the master share
crmdata_checks_swapped(f) ==
    IF ~f.valid THEN "InvalidJson"
    ELSE IF ~(Len(f.ipfshash) >= MinIpfsHashLen) THEN "InvalidIpfsHash"
    ELSE IF ~(Len(f.ipfshashprivate) >= MinIpfsHashLen) THEN "InvalidIpfsHashPrivate"
    ELSE IF ~(f.globalquorumvalue > 0) THEN "InvalidGlobalQuorum"
    ELSE IF ~(f.globalquorumvalue <= MaxPercent) THEN "InvalidGlobalQuorum"
    ELSE IF ~(f.masterquorumvalue > 0) THEN "InvalidMasterQuorum"
    ELSE IF ~(f.masterquorumvalue <= MaxPercent) THEN "InvalidMasterQuorum"
    ELSE IF ~(f.mastersharevalue > 0) THEN "InvalidMasterShare"
    ELSE IF ~(f.mastersharevalue <= MaxPercent) THEN "InvalidMasterShare"
    ELSE IF ~(f.compositionsharevalue > 0) THEN "InvalidCompositionShare"
    ELSE IF ~(f.compositionsharevalue <= MaxPercent) THEN "InvalidCompositionShare"
    ELSE IF ~(f.compositionquorumvalue > 0) THEN "InvalidCompositionQuorum"
    ELSE IF ~(f.compositionquorumvalue <= MaxPercent) THEN "InvalidCompositionQuorum"
    ELSE IF ~(f.othercontractssharevalue <= MaxPercent) THEN "InvalidOtherContractsShare"
    ELSE IF ~(f.othercontractsquorumvalue <= MaxPercent) THEN "InvalidOtherContractsQuorum"
    ELSE IF ~(f.crodwfundingsharevalue <= MaxPercent) THEN "InvalidCrowdFundingshares"
    ELSE IF ~(totalshares(f) = MaxPercent) THEN "InvalidTotalShares"
    ELSE "Ok"

\* crmdata_checks with the total allowed to stay under 100
crmdata_checks_at_most(f) ==
    IF ~f.valid THEN "InvalidJson"
    ELSE IF ~(Len(f.ipfshash) >= MinIpfsHashLen) THEN "InvalidIpfsHash"
    ELSE IF ~(Len(f.ipfshashprivate) >= MinIpfsHashLen) THEN "InvalidIpfsHashPrivate"
    ELSE IF ~(f.globalquorumvalue > 0) THEN "InvalidGlobalQuorum"
    ELSE IF ~(f.globalquorumvalue <= MaxPercent) THEN "InvalidGlobalQuorum"
    ELSE IF ~(f.mastersharevalue > 0) THEN "InvalidMasterShare"
    ELSE IF ~(f.mastersharevalue <= MaxPercent) THEN "InvalidMasterShare"
    ELSE IF ~(f.masterquorumvalue > 0) THEN "InvalidMasterQuorum"
    ELSE IF ~(f.masterquorumvalue <= MaxPercent) THEN "InvalidMasterQuorum"
    ELSE IF ~(f.compositionsharevalue > 0) THEN "InvalidCompositionShare"
    ELSE IF ~(f.compositionsharevalue <= MaxPercent) THEN "InvalidCompositionShare"
    ELSE IF ~(f.compositionquorumvalue > 0) THEN "InvalidCompositionQuorum"
    ELSE IF ~(f.compositionquorumvalue <= MaxPercent) THEN "InvalidCompositionQuorum"
    ELSE IF ~(f.othercontractssharevalue <= MaxPercent) THEN "InvalidOtherContractsShare"
    ELSE IF ~(f.othercontractsquorumvalue <= MaxPercent) THEN "InvalidOtherContractsQuorum"
    ELSE IF ~(f.crodwfundingsharevalue <= MaxPercent) THEN "InvalidCrowdFundingshares"
    ELSE IF ~(totalshares(f) <= MaxPercent) THEN "InvalidTotalShares"
    ELSE "Ok"

\* lines 132-253: the ensure! checks on those values, in the order of the code
crmdata_checks(f) ==
    IF ~f.valid THEN "InvalidJson"
    ELSE IF ~(Len(f.ipfshash) >= MinIpfsHashLen) THEN "InvalidIpfsHash"
    ELSE IF ~(Len(f.ipfshashprivate) >= MinIpfsHashLen) THEN "InvalidIpfsHashPrivate"
    ELSE IF ~(f.globalquorumvalue > 0) THEN "InvalidGlobalQuorum"
    ELSE IF ~(f.globalquorumvalue <= MaxPercent) THEN "InvalidGlobalQuorum"
    ELSE IF ~(f.mastersharevalue > 0) THEN "InvalidMasterShare"
    ELSE IF ~(f.mastersharevalue <= MaxPercent) THEN "InvalidMasterShare"
    ELSE IF ~(f.masterquorumvalue > 0) THEN "InvalidMasterQuorum"
    ELSE IF ~(f.masterquorumvalue <= MaxPercent) THEN "InvalidMasterQuorum"
    ELSE IF ~(f.compositionsharevalue > 0) THEN "InvalidCompositionShare"
    ELSE IF ~(f.compositionsharevalue <= MaxPercent) THEN "InvalidCompositionShare"
    ELSE IF ~(f.compositionquorumvalue > 0) THEN "InvalidCompositionQuorum"
    ELSE IF ~(f.compositionquorumvalue <= MaxPercent) THEN "InvalidCompositionQuorum"
    ELSE IF ~(f.othercontractssharevalue <= MaxPercent) THEN "InvalidOtherContractsShare"
    ELSE IF ~(f.othercontractsquorumvalue <= MaxPercent) THEN "InvalidOtherContractsQuorum"
    ELSE IF ~(f.crodwfundingsharevalue <= MaxPercent) THEN "InvalidCrowdFundingshares"
    ELSE IF ~(totalshares(f) = MaxPercent) THEN "InvalidTotalShares"
    ELSE "Ok"

CrmAdded(who, id) == [event |-> "CrmAdded", who |-> who, id |-> id]
CrmChanged(who, id) == [event |-> "CrmChanged", who |-> who, id |-> id]

----------------------------------------------------------------------------
(* What callers submit.  A flat document is described by its fields, in the  *)
(* order of the schema comment (lib.rs 95-107); every field is absent, a     *)
(* bare decimal, a quoted string, or bytes put verbatim after the colon.     *)

Absent == [t |-> "absent", n |-> 0, s |-> <<>>]
Num(n) == [t |-> "num", n |-> n, s |-> <<>>]
Str(s) == [t |-> "str", n |-> 0, s |-> s]
Raw(s) == [t |-> "raw", n |-> 0, s |-> s]

FieldOrder ==
    << "ipfshash", "ipfshashprivate", "globalquorum", "mastershare", "masterquorum",
       "compositionshare", "compositionquorum", "othercontractsshare",
       "othercontractsquorum", "crodwfundingshares", "crowdfundingshare" >>

KeyOf(name) ==
    CASE name = "ipfshash" -> K_ipfshash
      [] name = "ipfshashprivate" -> K_ipfshashprivate
      [] name = "globalquorum" -> K_globalquorum
      [] name = "mastershare" -> K_mastershare
      [] name = "masterquorum" -> K_masterquorum
      [] name = "compositionshare" -> K_compositionshare
      [] name = "compositionquorum" -> K_compositionquorum
      [] name = "othercontractsshare" -> K_othercontractsshare
      [] name = "othercontractsquorum" -> K_othercontractsquorum
      [] name = "crodwfundingshares" -> K_crodwfundingshares
      [] name = "crowdfundingshare" -> K_crowdfundingshare

\* a number as decimal digits
RECURSIVE Dec(_)
Dec(n) == IF n < 10 THEN <<DigitChar[n + 1]>>
          ELSE Dec(n \div 10) \o <<DigitChar[(n % 10) + 1]>>

RenderValue(f) ==
    CASE f.t = "num" -> Dec(f.n)
      [] f.t = "str" -> <<QUOTE>> \o f.s \o <<QUOTE>>
      [] f.t = "raw" -> f.s

\* "key":value
RenderField(key, f) == <<QUOTE>> \o key \o <<QUOTE, ":">> \o RenderValue(f)

\* the fields FieldOrder[n..] of d that are present, separated by commas
RECURSIVE RenderFrom(_, _, _)
RenderFrom(d, n, first) ==
    IF n > Len(FieldOrder) THEN <<>>
    ELSE LET name == FieldOrder[n]
         IN  IF d[name].t = "absent" THEN RenderFrom(d, n + 1, first)
             ELSE (IF first THEN <<>> ELSE <<",">>)
                     \o RenderField(KeyOf(name), d[name])
                     \o RenderFrom(d, n + 1, FALSE)

RenderDoc(d) == <<"{">> \o RenderFrom(d, 1, TRUE) \o <<"}">>

\* the document of the example of lib.rs line 109, with short hashes
BaseDoc ==
    [ ipfshash |-> Str(<<"0","E","7","0">>),
      ipfshashprivate |-> Str(<<"B","4","5","1">>),
      globalquorum |-> Num(100),
      mastershare |-> Num(50),
      masterquorum |-> Num(51),
      compositionshare |-> Num(30),
      compositionquorum |-> Num(51),
      othercontractsshare |-> Num(20),
      othercontractsquorum |-> Num(51),
      crodwfundingshares |-> Absent,
      crowdfundingshare |-> Absent ]

\* an input: a described document, or bytes that follow no description
DocInput(d) == [kind |-> "doc", doc |-> d, bytes |-> RenderDoc(d)]
RawInput(b) == [kind |-> "raw", doc |-> BaseDoc, bytes |-> b]
\* what is remembered of an input: its description, not its bytes
Described(inp) == [kind |-> inp.kind, doc |-> inp.doc]


\* the example of lib.rs line 109, byte for byte
ExamplePayload ==
    <<"{",QUOTE,"i","p","f","s","h","a","s","h",QUOTE,":",QUOTE,"0","E","7","0","7","1","C",
      "5","9","D","F","3","B","9","4","5","4","D","1","D","1","8","A","1","5","2","7","0",
      "A","A","3","6","D","5","4","F","8","9","6","0","6","A","5","7","6","D","C","6","2",
      "1","7","5","7","A","F","D","4","4","A","D","1","D","2","E",QUOTE,",",QUOTE,"i","p",
      "f","s","h","a","s","h","p","r","i","v","a","t","e",QUOTE,":"," ",QUOTE,"B","4","5",
      "1","6","5","E","D","3","C","D","4","3","7","B","9","F","F","A","D","0","2","A","2",
      "A","A","D","2","2","A","4","D","D","C","6","9","1","6","2","4","7","0","E","2","6",
      "2","2","9","8","2","8","8","9","C","E","5","8","2","6","F","6","E","3","D",QUOTE,",",
      QUOTE,"g","l","o","b","a","l","q","u","o","r","u","m",QUOTE,":","1","0","0",",",QUOTE,
      "m","a","s","t","e","r","s","h","a","r","e",QUOTE,":","5","0",",",QUOTE,"m","a","s",
      "t","e","r","q","u","o","r","u","m",QUOTE,":","5","1",",",QUOTE,"c","o","m","p","o",
      "s","i","t","i","o","n","s","h","a","r","e",QUOTE,":","3","0",",",QUOTE,"c","o","m",
      "p","o","s","i","t","i","o","n","q","u","o","r","u","m",QUOTE,":","5","1",",",QUOTE,
      "o","t","h","e","r","c","o","n","t","r","a","c","t","s","s","h","a","r","e",QUOTE,":",
      "2","0",",",QUOTE,"o","t","h","e","r","c","o","n","t","r","a","c","t","s","q","u","o",
      "r","u","m",QUOTE,":","5","1","}">>

\* the same with "mastershare":10
ExamplePayload10 ==
    <<"{",QUOTE,"i","p","f","s","h","a","s","h",QUOTE,":",QUOTE,"0","E","7","0","7","1","C",
      "5","9","D","F","3","B","9","4","5","4","D","1","D","1","8","A","1","5","2","7","0",
      "A","A","3","6","D","5","4","F","8","9","6","0","6","A","5","7","6","D","C","6","2",
      "1","7","5","7","A","F","D","4","4","A","D","1","D","2","E",QUOTE,",",QUOTE,"i","p",
      "f","s","h","a","s","h","p","r","i","v","a","t","e",QUOTE,":"," ",QUOTE,"B","4","5",
      "1","6","5","E","D","3","C","D","4","3","7","B","9","F","F","A","D","0","2","A","2",
      "A","A","D","2","2","A","4","D","D","C","6","9","1","6","2","4","7","0","E","2","6",
      "2","2","9","8","2","8","8","9","C","E","5","8","2","6","F","6","E","3","D",QUOTE,",",
      QUOTE,"g","l","o","b","a","l","q","u","o","r","u","m",QUOTE,":","1","0","0",",",QUOTE,
      "m","a","s","t","e","r","s","h","a","r","e",QUOTE,":","1","0",",",QUOTE,"m","a","s",
      "t","e","r","q","u","o","r","u","m",QUOTE,":","5","1",",",QUOTE,"c","o","m","p","o",
      "s","i","t","i","o","n","s","h","a","r","e",QUOTE,":","3","0",",",QUOTE,"c","o","m",
      "p","o","s","i","t","i","o","n","q","u","o","r","u","m",QUOTE,":","5","1",",",QUOTE,
      "o","t","h","e","r","c","o","n","t","r","a","c","t","s","s","h","a","r","e",QUOTE,":",
      "2","0",",",QUOTE,"o","t","h","e","r","c","o","n","t","r","a","c","t","s","q","u","o",
      "r","u","m",QUOTE,":","5","1","}">>

----------------------------------------------------------------------------
(* The inputs of the pipeline checks *)

\* the values tried, in every combination, for the four share fields
ShareChoices == {Absent} \cup {Num(n) : n \in {0, 1, 30, 50, 99, 101}}
OtherShareChoices == {Absent} \cup {Num(n) : n \in {0, 20, 101}}
CrowdShareChoices == {Absent} \cup {Num(n) : n \in {0, 20, 101}}

ShareDocs ==
    { [BaseDoc EXCEPT !.mastershare = a, !.compositionshare = b,
                      !.othercontractsshare = c, !.crodwfundingshares = e] :
        a \in ShareChoices, b \in ShareChoices, c \in OtherShareChoices,
        e \in CrowdShareChoices }

\* documents that give the crowd funding share under the documented key
DocumentedKeyDocs ==
    { [BaseDoc EXCEPT !.mastershare = Num(a), !.compositionshare = Num(b),
                      !.othercontractsshare = Num(c), !.crowdfundingshare = Num(e),
                      !.crodwfundingshares = f] :
        a \in {30, 50}, b \in {30, 50}, c \in {0, 20}, e \in {0, 20, 101},
        f \in {Absent, Num(20)} }

CheckedFields ==
    { "ipfshash", "ipfshashprivate", "globalquorum", "mastershare", "masterquorum",
      "compositionshare", "compositionquorum", "othercontractsshare",
      "othercontractsquorum", "crodwfundingshares" }

\* a value of the field that its check refuses
BadOf(name) ==
    CASE name = "ipfshash" -> Str(<<"0","E","7">>)
      [] name = "ipfshashprivate" -> Absent
      [] name = "globalquorum" -> Num(0)
      [] name = "mastershare" -> Num(101)
      [] name = "masterquorum" -> Num(101)
      [] name = "compositionshare" -> Num(0)
      [] name = "compositionquorum" -> Absent
      [] name = "othercontractsshare" -> Num(101)
      [] name = "othercontractsquorum" -> Num(101)
      [] name = "crodwfundingshares" -> Num(101)

\* one field, two fields or all fields made bad at once: which error comes first
OrderDocs ==
    { [BaseDoc EXCEPT
         !.ipfshash = IF "ipfshash" \in B THEN BadOf("ipfshash") ELSE @,
         !.ipfshashprivate = IF "ipfshashprivate" \in B THEN BadOf("ipfshashprivate") ELSE @,
         !.globalquorum = IF "globalquorum" \in B THEN BadOf("globalquorum") ELSE @,
         !.mastershare = IF "mastershare" \in B THEN BadOf("mastershare") ELSE @,
         !.masterquorum = IF "masterquorum" \in B THEN BadOf("masterquorum") ELSE @,
         !.compositionshare = IF "compositionshare" \in B THEN BadOf("compositionshare") ELSE @,
         !.compositionquorum = IF "compositionquorum" \in B THEN BadOf("compositionquorum") ELSE @,
         !.othercontractsshare =
             IF "othercontractsshare" \in B THEN BadOf("othercontractsshare") ELSE @,
         !.othercontractsquorum =
             IF "othercontractsquorum" \in B THEN BadOf("othercontractsquorum") ELSE @,
         !.crodwfundingshares =
             IF "crodwfundingshares" \in B THEN BadOf("crodwfundingshares") ELSE @] :
        B \in {C \in SUBSET CheckedFields : Cardinality(C) <= 2} \cup {CheckedFields} }

\* values that are not a bare decimal of the ordinary kind
OddEncodings ==
    { Str(<<"x">>), Str(<<"2","0">>), Str(<<>>), Raw(<<" ","2","0">>), Raw(<<"+","2","0">>),
      Raw(<<"0","2","0">>), Raw(<<"-","1">>), Raw(<<NonUtf8>>),
      Raw(<<"1","8","4","4","6","7","4","4","0","7","3","7","0","9","5","5","1","6","1","5">>),
      Raw(<<"1","8","4","4","6","7","4","4","0","7","3","7","0","9","5","5","1","6","1","6">>),
      Raw(<<"4","2","9","4","9","6","7","2","9","6">>) }

NumericFields == CheckedFields \ {"ipfshash", "ipfshashprivate"}

OddDocs ==
    { [BaseDoc EXCEPT ![name] = v] : name \in NumericFields, v \in OddEncodings }

PipelineDocs == ShareDocs \cup DocumentedKeyDocs \cup OrderDocs \cup OddDocs

\* {"a":1}: seven bytes
TooShortPayload == <<"{", QUOTE, "a", QUOTE, ":", "1", "}">>
\* one byte more than the longest crmdata accepted
TooLongPayload == <<"{">> \o [n \in 1..(MaxCrmDataLen - 1) |-> " "] \o <<"}">>
\* BaseDoc without its closing brace, with an unclosed string, with the wrong
\* closing bracket, with an unclosed array
Truncated == SubSeq(RenderDoc(BaseDoc), 1, Len(RenderDoc(BaseDoc)) - 1)
Unclosed == RenderDoc([BaseDoc EXCEPT !.othercontractsquorum = Raw(<<"5", "1", QUOTE>>)])
Mismatched == Truncated \o <<"]">>
OpenArray == RenderDoc([BaseDoc EXCEPT !.othercontractsquorum = Raw(<<"[", "5", "1">>)])

\* BaseDoc followed by a "crowdfounders" field (lib.rs line 106) long enough to
\* make it exactly the longest crmdata accepted
MaxLenPayload ==
    Truncated
      \o <<",", QUOTE, "c","r","o","w","d","f","o","u","n","d","e","r","s", QUOTE, ":", QUOTE>>
      \o [n \in 1..(MaxCrmDataLen - Len(Truncated) - 20) |-> "x"]
      \o <<QUOTE, "}">>

RawPayloads ==
    { TooShortPayload, TooLongPayload, MaxLenPayload, Truncated, Unclosed, Mismatched,
      OpenArray, ExamplePayload, ExamplePayload10 }

PipelineInputs ==
    {DocInput(d) : d \in PipelineDocs} \cup {RawInput(b) : b \in RawPayloads}

\* the inputs of the ledger machine: two documents that pass (different bytes),
\* one whose shares sum to 80, one too short
SecondDoc ==
    [BaseDoc EXCEPT !.mastershare = Num(30), !.othercontractsshare = Num(20),
                    !.crodwfundingshares = Num(20)]
LedgerInputs ==
    { DocInput(BaseDoc), DocInput(SecondDoc),
      DocInput([BaseDoc EXCEPT !.mastershare = Num(30)]),
      RawInput(TooShortPayload) }

\* master and composition share both u64::MAX
TwoHugeDoc ==
    [BaseDoc EXCEPT
       !.mastershare =
          Raw(<<"1","8","4","4","6","7","4","4","0","7","3","7","0","9","5","5","1","6","1","5">>),
       !.compositionshare =
          Raw(<<"1","8","4","4","6","7","4","4","0","7","3","7","0","9","5","5","1","6","1","5">>)]

\* the inputs that could make new_crmdata misbehave: malformed documents,
\* lengths at and beyond the limits, numbers at and beyond u64::MAX
HostileInputs ==
    {DocInput(d) : d \in OddDocs \cup OrderDocs \cup {TwoHugeDoc}}
        \cup {RawInput(b) : b \in RawPayloads}

\* crmdata_fields reads nothing but crmdata: it is computed once for every
\* payload a caller can submit
Payloads == {inp.bytes : inp \in PipelineInputs \cup LedgerInputs \cup HostileInputs}
crmdata_decoded == [p \in Payloads |-> crmdata_fields(p)] @@ <<>>

----------------------------------------------------------------------------
(* The dispatchable *)

\* new_crmdata_result with the lookup made by crmid alone, whoever the owner
new_crmdata_result_any_owner(map, sender, crmid, crmdata) ==
    IF ~(Len(crmdata) >= MinCrmDataLen) THEN "TooShort"
    ELSE IF ~(Len(crmdata) <= MaxCrmDataLen) THEN "TooLong"
    ELSE IF ~(crmid > 0) THEN "InvalidValue"
    ELSE IF \E o \in Owners : map[o, crmid] # None THEN "DuplicatedCrmId"
    ELSE crmdata_checks(crmdata_decoded[crmdata])

\* new_crmdata_result without the lookup of lines 121-129
new_crmdata_result_no_lookup(map, sender, crmid, crmdata) ==
    IF ~(Len(crmdata) >= MinCrmDataLen) THEN "TooShort"
    ELSE IF ~(Len(crmdata) <= MaxCrmDataLen) THEN "TooLong"
    ELSE IF ~(crmid > 0) THEN "InvalidValue"
    ELSE crmdata_checks(crmdata_decoded[crmdata])

\* new_crmdata_result with the lookup made after the checks of the content
new_crmdata_result_late_lookup(map, sender, crmid, crmdata) ==
    IF ~(Len(crmdata) >= MinCrmDataLen) THEN "TooShort"
    ELSE IF ~(Len(crmdata) <= MaxCrmDataLen) THEN "TooLong"
    ELSE IF ~(crmid > 0) THEN "InvalidValue"
    ELSE LET r == crmdata_checks(crmdata_decoded[crmdata])
         IN  IF r # "Ok" THEN r
             ELSE IF map[sender, crmid] # None THEN "DuplicatedCrmId"
             ELSE "Ok"

\* lines 116-253: the DispatchResult of a call that finds the map as `map`
new_crmdata_result(map, sender, crmid, crmdata) ==
    IF ~(Len(crmdata) >= MinCrmDataLen) THEN "TooShort"
    ELSE IF ~(Len(crmdata) <= MaxCrmDataLen) THEN "TooLong"
    ELSE IF ~(crmid > 0) THEN "InvalidValue"
    ELSE IF map[sender, crmid] # None THEN "DuplicatedCrmId"
    ELSE crmdata_checks(crmdata_decoded[crmdata])

\* new_crmdata with the event deposited for a refused duplicate as well
new_crmdata_event_on_duplicate(origin, crmid, crmdata) ==
    LET sender == origin
        result == new_crmdata_result(CrmData, sender, crmid, crmdata)
    IN  /\ CrmData' = IF result = "Ok"
                        THEN [CrmData EXCEPT ![sender, crmid] = Some(crmdata)]
                        ELSE CrmData
        /\ events' = IF result \in {"Ok", "DuplicatedCrmId"}
                       THEN Append(events, CrmAdded(sender, crmid))
                       ELSE events
        /\ dispatched' = Some([origin |-> origin, crmid |-> crmid, crmdata |-> crmdata,
                               result |-> result, before |-> CrmData,
                               eventsBefore |-> events])

\* new_crmdata with the insert made as soon as the key is known to be free,
\* before the content is checked
new_crmdata_insert_first(origin, crmid, crmdata) ==
    LET sender == origin
        result == new_crmdata_result(CrmData, sender, crmid, crmdata)
    IN  /\ CrmData' = IF result \in {"TooShort", "TooLong", "InvalidValue", "DuplicatedCrmId"}
                        THEN CrmData
                        ELSE [CrmData EXCEPT ![sender, crmid] = Some(crmdata)]
        /\ events' = IF result = "Ok"
                       THEN Append(events, CrmAdded(sender, crmid))
                       ELSE events
        /\ dispatched' = Some([origin |-> origin, crmid |-> crmid, crmdata |-> crmdata,
                               result |-> result, before |-> CrmData,
                               eventsBefore |-> events])

\* lines 112-263; origin is the signed account (ensure_signed gives the sender)
new_crmdata(origin, crmid, crmdata) ==
    LET sender == origin
        result == new_crmdata_result(CrmData, sender, crmid, crmdata)
    IN  /\ CrmData' = IF result = "Ok"
                        THEN [CrmData EXCEPT ![sender, crmid] = Some(crmdata)]
                        ELSE CrmData
        /\ events' = IF result = "Ok"
                       THEN Append(events, CrmAdded(sender, crmid))
                       ELSE events
        /\ dispatched' = Some([origin |-> origin, crmid |-> crmid, crmdata |-> crmdata,
                               result |-> result, before |-> CrmData,
                               eventsBefore |-> events])

NoRecords == [k \in Owners \X CrmIds |-> None]
NoPending == [e \in Executors |-> None]

Init ==
    /\ CrmData = NoRecords
    /\ events = <<>>
    /\ dispatched = None
    /\ composed = None
    /\ fcall = None
    /\ fret = None
    /\ pending = NoPending

\* a signed extrinsic is dispatched: any account, any id, any of the inputs
Submit(inputs) ==
    \E o \in Owners, i \in CrmIds, inp \in inputs :
        /\ new_crmdata(o, i, inp.bytes)
        /\ composed' = Some(Described(inp))
        /\ UNCHANGED <<fcall, fret, pending>>

Next == Len(events) < MaxRecords /\ Submit(LedgerInputs)

Spec == Init /\ [][Next]_vars

\* one call of new_crmdata, on an empty ledger or on one that holds a record
InitPipeline ==
    /\ \/ CrmData = NoRecords /\ events = <<>>
       \/ /\ CrmData = [NoRecords EXCEPT ![1, 1] = Some(RenderDoc(BaseDoc))]
          /\ events = <<CrmAdded(1, 1)>>
    /\ dispatched = None
    /\ composed = None
    /\ fcall = None
    /\ fret = None
    /\ pending = NoPending

NextPipeline == dispatched = None /\ Submit(PipelineInputs)

SpecPipeline == InitPipeline /\ [][NextPipeline]_vars

----------------------------------------------------------------------------
(* The two helpers called on their own *)

\* all byte strings over `alphabet` of at most n bytes
RECURSIVE Strings(_, _)
Strings(alphabet, n) ==
    IF n = 0 THEN {<<>>}
    ELSE LET shorter == Strings(alphabet, n - 1)
         IN  shorter \cup {Append(w, a) : w \in shorter, a \in alphabet}

GetCall(j, key, shape, v) ==
    [fn |-> "json_get_value", j |-> j, key |-> key, shape |-> shape, v |-> v]
CheckCall(j, shape) ==
    [fn |-> "json_check_validity", j |-> j, key |-> <<>>, shape |-> shape, v |-> <<>>]

\* keys of the round-trip documents: k, the empty key, a real field name, a":
RoundTripKeys == {<<"k">>, <<>>, K_mastershare, <<"a", QUOTE, ":">>}
\* bytes of a quoted value: no quote, no backslash
ValueAlphabet == {"a", ":", ",", "[", "}", " "}
DigitAlphabet == {"0", "4", "2"}

\* {"k":"v"}
QuotedDoc(k, v) == <<"{", QUOTE>> \o k \o <<QUOTE, ":", QUOTE>> \o v \o <<QUOTE, "}">>
\* {"k":42}
BareDoc(k, v) == <<"{", QUOTE>> \o k \o <<QUOTE, ":">> \o v \o <<"}">>
\* {"k":42,"z":1}
BareCommaDoc(k, v) ==
    <<"{", QUOTE>> \o k \o <<QUOTE, ":">> \o v \o <<",", QUOTE, "z", QUOTE, ":", "1", "}">>

RoundTripCalls ==
    {GetCall(QuotedDoc(k, v), k, "quoted", v) :
        k \in RoundTripKeys, v \in Strings(ValueAlphabet, MaxValLen)}
    \cup {GetCall(BareDoc(k, v), k, "bare}", v) :
        k \in RoundTripKeys, v \in Strings(DigitAlphabet, MaxValLen) \ {<<>>}}
    \cup {GetCall(BareCommaDoc(k, v), k, "bare,", v) :
        k \in RoundTripKeys, v \in Strings(DigitAlphabet, MaxValLen) \ {<<>>}}

\* what a JSON string is made of: plain characters and the escapes \" and \\
StringItems ==
    {<<"a">>, <<"[">>, <<"]">>, <<"{">>, <<"}">>, <<":">>, <<",">>,
     <<BACKSLASH, QUOTE>>, <<BACKSLASH, BACKSLASH>>}
RECURSIVE Flatten(_)
Flatten(items) == IF items = <<>> THEN <<>> ELSE items[1] \o Flatten(Tail(items))
\* the well-formed strings of at most MaxItems items, in their quotes
JsonStrings ==
    {<<QUOTE>> \o Flatten(items) \o <<QUOTE>> : items \in Strings(StringItems, MaxItems)}
JsonDecimals == {<<"0">>, <<"4", "2">>}
JsonValues == JsonStrings \cup JsonDecimals
JsonMember(k, val) == <<QUOTE>> \o k \o <<QUOTE, ":">> \o val

\* the well-formed flat objects: {}, one member, or two members
FlatObjects ==
    {<<"{", "}">>}
    \cup {<<"{">> \o JsonMember(<<"k">>, val) \o <<"}">> : val \in JsonValues}
    \cup {<<"{">> \o JsonMember(<<"k">>, val) \o <<",">> \o JsonMember(<<"z">>, w) \o <<"}">> :
            val \in JsonValues, w \in {<<"1">>, <<QUOTE, "a", QUOTE>>}}

ValidityCalls == {CheckCall(j, "flat") : j \in FlatObjects}

\* every byte string of at most MaxDocLen bytes over the bytes the validator
\* tells apart (and the digit 1)
StructAlphabet == {"{", "}", "[", "]", QUOTE, ":", "1"}
AnyDocs == Strings(StructAlphabet, MaxDocLen)
AnyValidityCalls == {CheckCall(j, "any") : j \in AnyDocs}

\* every byte string of at most MaxDocLen bytes over the bytes of "k": and the
\* bytes that end a value, searched for the key k and for the empty key
GetAlphabet == {QUOTE, "k", ":", "}", ","}
AnyGetCalls ==
    {GetCall(j, key, "any", <<>>) :
        j \in Strings(GetAlphabet, MaxDocLen), key \in {<<>>, <<"k">>}}

\* bracketed lists of at most MaxItems bare numbers and quoted strings
ArrayElements == {<<"1">>, <<"4", "2">>, <<QUOTE, "x", QUOTE>>, <<QUOTE, "y", "y", QUOTE>>}
RECURSIVE JoinItems(_)
JoinItems(items) ==
    IF items = <<>> THEN <<>>
    ELSE IF Len(items) = 1 THEN items[1]
    ELSE items[1] \o <<",">> \o JoinItems(Tail(items))
ArrayValues == {<<"[">> \o JoinItems(items) \o <<"]">> : items \in Strings(ArrayElements, MaxItems)}

\* {"k":[..]} and {"k":[..],"z":1}
ArrayCalls ==
    {GetCall(BareDoc(<<"k">>, v), <<"k">>, "array}", v) : v \in ArrayValues}
    \cup {GetCall(BareCommaDoc(<<"k">>, v), <<"k">>, "array,", v) : v \in ArrayValues}

InitPure ==
    /\ CrmData = NoRecords
    /\ events = <<>>
    /\ dispatched = None
    /\ composed = None
    /\ \/ fcall \in {Some(c) : c \in RoundTripCalls}
       \/ fcall \in {Some(c) : c \in ValidityCalls}
       \/ fcall \in {Some(c) : c \in AnyValidityCalls}
       \/ fcall \in {Some(c) : c \in AnyGetCalls}
       \/ fcall \in {Some(c) : c \in ArrayCalls}
    /\ fret = None
    /\ pending = NoPending

json_get_value_call ==
    /\ fcall # None /\ fret = None
    /\ fcall[1].fn = "json_get_value"
    /\ fret' = Some(json_get_value(fcall[1].j, fcall[1].key))
    /\ UNCHANGED <<CrmData, events, dispatched, composed, fcall, pending>>

json_check_validity_call ==
    /\ fcall # None /\ fret = None
    /\ fcall[1].fn = "json_check_validity"
    /\ fret' = Some(json_check_validity(fcall[1].j))
    /\ UNCHANGED <<CrmData, events, dispatched, composed, fcall, pending>>

NextPure == json_get_value_call \/ json_check_validity_call

SpecPure == InitPure /\ [][NextPure]_vars

\* the helpers called on their own, and new_crmdata called once on a hostile
\* input
NextHostile ==
    \/ NextPure
    \/ fcall = None /\ dispatched = None /\ Submit(HostileInputs)

InitHostile == InitPure \/ InitPipeline

SpecHostile == InitHostile /\ [][NextHostile]_vars

----------------------------------------------------------------------------
(* new_crmdata run by several executors that are not serialised: the checks *)
(* of lines 116-253 are one step, the insert and the event of lines 255-260 *)
(* another, and steps of other executors may come between the two.          *)

RaceOwners == {1}
RaceIds == {1, 2}
\* two documents that pass (different bytes) and one whose shares sum to 80
RaceInputs ==
    {DocInput(BaseDoc), DocInput(SecondDoc), DocInput([BaseDoc EXCEPT !.mastershare = Num(30)])}

\* lines 112-253: the checks, made on the map as it is now
new_crmdata_check(e, origin, crmid, crmdata) ==
    LET sender == origin
        result == new_crmdata_result(CrmData, sender, crmid, crmdata)
    IN  /\ pending[e] = None
        /\ IF result = "Ok"
             THEN /\ pending' = [pending EXCEPT ![e] =
                                    Some([origin |-> origin, crmid |-> crmid,
                                          crmdata |-> crmdata, checkedAt |-> Len(events)])]
                  /\ UNCHANGED dispatched
             ELSE /\ dispatched' = Some([origin |-> origin, crmid |-> crmid,
                                         crmdata |-> crmdata, result |-> result,
                                         before |-> CrmData, eventsBefore |-> events,
                                         checkedAt |-> Len(events)])
                  /\ UNCHANGED pending
        /\ UNCHANGED <<CrmData, events>>

\* new_crmdata_insert that writes only when the key is still free
new_crmdata_insert_if_absent(e) ==
    LET c == pending[e][1]
        free == CrmData[c.origin, c.crmid] = None
    IN  /\ pending[e] # None
        /\ CrmData' = IF free THEN [CrmData EXCEPT ![c.origin, c.crmid] = Some(c.crmdata)]
                       ELSE CrmData
        /\ events' = IF free THEN Append(events, CrmAdded(c.origin, c.crmid)) ELSE events
        /\ pending' = [pending EXCEPT ![e] = None]
        /\ dispatched' = Some([origin |-> c.origin, crmid |-> c.crmid, crmdata |-> c.crmdata,
                               result |-> IF free THEN "Ok" ELSE "DuplicatedCrmId",
                               before |-> CrmData, eventsBefore |-> events,
                               checkedAt |-> c.checkedAt])

\* lines 255-262: the insert, the event and Ok(()), whatever the map holds by now
new_crmdata_insert(e) ==
    LET c == pending[e][1]
    IN  /\ pending[e] # None
        /\ CrmData' = [CrmData EXCEPT ![c.origin, c.crmid] = Some(c.crmdata)]
        /\ events' = Append(events, CrmAdded(c.origin, c.crmid))
        /\ pending' = [pending EXCEPT ![e] = None]
        /\ dispatched' = Some([origin |-> c.origin, crmid |-> c.crmid, crmdata |-> c.crmdata,
                               result |-> "Ok", before |-> CrmData, eventsBefore |-> events,
                               checkedAt |-> c.checkedAt])

InFlight == {e \in Executors : pending[e] # None}

CheckStep ==
    /\ Len(events) + Cardinality(InFlight) < MaxRecords
    /\ \E e \in Executors, o \in RaceOwners, i \in RaceIds, inp \in RaceInputs :
           new_crmdata_check(e, o, i, inp.bytes)
    /\ UNCHANGED <<composed, fcall, fret>>

InsertStep ==
    /\ \E e \in Executors : new_crmdata_insert(e)
    /\ UNCHANGED <<composed, fcall, fret>>

NextRace == CheckStep \/ InsertStep

SpecRace == Init /\ [][NextRace]_vars

----------------------------------------------------------------------------
(* The call that was dispatched last *)

Called == dispatched # None
LastCall == dispatched[1]
LastKey == <<LastCall.origin, LastCall.crmid>>
LastFields == crmdata_decoded[LastCall.crmdata]
\* the key of the call had no record, and the id was not 0
FreshKey == LastCall.crmid > 0 /\ LastCall.before[LastKey] = None
\* the call wrote crmdata under its key and nothing else
Inserted ==
    /\ LastCall.before[LastKey] = None
    /\ CrmData = [LastCall.before EXCEPT ![LastKey] = Some(LastCall.crmdata)]

\* the sixteen checks of new_crmdata, each on its own: TRUE when it refuses
CheckFails(n) ==
    LET f == LastFields
    IN  CASE n = 1 -> Len(LastCall.crmdata) < MinCrmDataLen
          [] n = 2 -> Len(LastCall.crmdata) > MaxCrmDataLen
          [] n = 3 -> LastCall.crmid = 0
          [] n = 4 -> LastCall.before[LastKey] # None
          [] n = 5 -> ~f.valid
          [] n = 6 -> Len(f.ipfshash) < MinIpfsHashLen
          [] n = 7 -> Len(f.ipfshashprivate) < MinIpfsHashLen
          [] n = 8 -> f.globalquorumvalue \notin 1..MaxPercent
          [] n = 9 -> f.mastersharevalue \notin 1..MaxPercent
          [] n = 10 -> f.masterquorumvalue \notin 1..MaxPercent
          [] n = 11 -> f.compositionsharevalue \notin 1..MaxPercent
          [] n = 12 -> f.compositionquorumvalue \notin 1..MaxPercent
          [] n = 13 -> f.othercontractssharevalue > MaxPercent
          [] n = 14 -> f.othercontractsquorumvalue > MaxPercent
          [] n = 15 -> f.crodwfundingsharevalue > MaxPercent
          [] n = 16 -> f.mastersharevalue + f.compositionsharevalue
                         + f.othercontractssharevalue + f.crodwfundingsharevalue
                           # MaxPercent
ErrorOf ==
    << "TooShort", "TooLong", "InvalidValue", "DuplicatedCrmId", "InvalidJson",
       "InvalidIpfsHash", "InvalidIpfsHashPrivate", "InvalidGlobalQuorum",
       "InvalidMasterShare", "InvalidMasterQuorum", "InvalidCompositionShare",
       "InvalidCompositionQuorum", "InvalidOtherContractsShare",
       "InvalidOtherContractsQuorum", "InvalidCrowdFundingshares", "InvalidTotalShares" >>
Failing == {n \in 1..Len(ErrorOf) : CheckFails(n)}

----------------------------------------------------------------------------
(* C1 *)

\* C1: a call of new_crmdata is all or nothing. When it returns an error the
\* map and the events are what they were before the call; the payload is
\* written under (owner, crmid), with one CrmAdded(owner, crmid) event, if and
\* only if none of the sixteen checks refuses, and a call never writes anything
\* else.
C1_AllOrNothing ==
    Called =>
        /\ LastCall.result # "Ok" =>
              CrmData = LastCall.before /\ events = LastCall.eventsBefore
        /\ Inserted <=> Failing = {}
        /\ Inserted =>
              events = Append(LastCall.eventsBefore, CrmAdded(LastCall.origin, LastCall.crmid))
        /\ ~Inserted => CrmData = LastCall.before

\* a call refused by the very last check, after every field was extracted
C1_Witness ==
    /\ Called
    /\ LastCall.result = "InvalidTotalShares"
    /\ Failing = {16}
    /\ CrmData = LastCall.before
    /\ events = LastCall.eventsBefore

----------------------------------------------------------------------------
(* C2 *)

\* C2: a record is written once. Whatever a call does, every key that held a
\* record before the call holds the same bytes after it, so a record keeps the
\* bytes first inserted through every later sequence of calls.
C2_WriteOnce ==
    Called =>
        \A k \in DOMAIN CrmData :
            LastCall.before[k] # None => CrmData[k] = LastCall.before[k]

\* a call on a key that holds a record, bringing other bytes that would pass
\* every check of the content
C2_Witness ==
    /\ Called
    /\ LastCall.before[LastKey] # None
    /\ LastCall.before[LastKey] # Some(LastCall.crmdata)
    /\ Failing = {4}
    /\ CrmData[LastKey] = LastCall.before[LastKey]

----------------------------------------------------------------------------
(* C3 *)

\* C3 as the specification states it: a call on a key that holds a record
\* returns DuplicatedCrmId whatever the payload, and leaves the record.
C3_AnyPayloadDuplicate ==
    Called /\ LastCall.before[LastKey] # None =>
        /\ LastCall.result = "DuplicatedCrmId"
        /\ CrmData[LastKey] = LastCall.before[LastKey]

\* C3, amended: a call on a key that holds a record returns DuplicatedCrmId
\* when the payload has 8 to 8192 bytes, TooShort when it is shorter and
\* TooLong when it is longer; in every case the map is left as it was.
C3_DuplicateAfterLength ==
    Called /\ LastCall.before[LastKey] # None =>
        /\ LastCall.result =
              IF Len(LastCall.crmdata) < MinCrmDataLen THEN "TooShort"
              ELSE IF Len(LastCall.crmdata) > MaxCrmDataLen THEN "TooLong"
              ELSE "DuplicatedCrmId"
        /\ CrmData = LastCall.before
        /\ events = LastCall.eventsBefore

\* a second submission under a stored key whose content fails a later check
\* too: it is the duplicate that is reported
C3_Witness ==
    /\ Called
    /\ LastCall.before[LastKey] # None
    /\ LastCall.result = "DuplicatedCrmId"
    /\ 16 \in Failing
    /\ CrmData[LastKey] = LastCall.before[LastKey]

----------------------------------------------------------------------------
(* C4 *)

\* C4: the checks run in the order of ErrorOf and the call returns the error of
\* the first one that refuses, Ok when none does; so a payload under 8 bytes
\* gives TooShort whatever else is wrong with the call.
C4_FirstFailingCheck ==
    Called =>
        /\ LastCall.result =
              IF Failing = {} THEN "Ok"
              ELSE ErrorOf[CHOOSE n \in Failing : \A m \in Failing : n <= m]
        /\ Len(LastCall.crmdata) < MinCrmDataLen => LastCall.result = "TooShort"

\* a call that two checks or more would refuse, the key being taken and the
\* document cut short: the earliest of them is reported
C4_Witness ==
    /\ Called
    /\ Cardinality(Failing) >= 2
    /\ {4, 5} \subseteq Failing
    /\ LastCall.result = "DuplicatedCrmId"

----------------------------------------------------------------------------
(* The document a caller composed, for the claims stated on field values *)

\* the call carried a flat compact document, described field by field
OfDocument == Called /\ composed # None /\ composed[1].kind = "doc"
Doc == composed[1].doc

\* the field is a bare decimal in lo..hi
InRange(fld, lo, hi) == fld.t = "num" /\ fld.n \in lo..hi
\* the same, or the field is left out
InRangeOrAbsent(fld, lo, hi) == fld.t = "absent" \/ InRange(fld, lo, hi)
\* a share left out counts for nothing in the sum the caller intends
ShareOf(fld) == IF fld.t = "num" THEN fld.n ELSE 0

\* both hashes of four bytes or more, the quorums within their bounds
OtherFieldsValid(d) ==
    /\ d.ipfshash.t = "str" /\ Len(d.ipfshash.s) >= MinIpfsHashLen
    /\ d.ipfshashprivate.t = "str" /\ Len(d.ipfshashprivate.s) >= MinIpfsHashLen
    /\ InRange(d.globalquorum, 1, MaxPercent)
    /\ InRange(d.masterquorum, 1, MaxPercent)
    /\ InRange(d.compositionquorum, 1, MaxPercent)
    /\ InRangeOrAbsent(d.othercontractsquorum, 0, MaxPercent)

\* the share fields as new_crmdata names them (line 240 for the last)
ShareFields ==
    {"mastershare", "compositionshare", "othercontractsshare", "crodwfundingshares"}
ShareInRange(name, fld) ==
    CASE name = "mastershare" -> InRange(fld, 1, MaxPercent)
      [] name = "compositionshare" -> InRange(fld, 1, MaxPercent)
      [] name = "othercontractsshare" -> InRange(fld, 0, MaxPercent)
      [] name = "crodwfundingshares" -> InRangeOrAbsent(fld, 0, MaxPercent)
ShareSum(d) ==
    ShareOf(d.mastershare) + ShareOf(d.compositionshare)
        + ShareOf(d.othercontractsshare) + ShareOf(d.crodwfundingshares)

\* a document every check of the content accepts, by its fields
Acceptable(d) ==
    /\ OtherFieldsValid(d)
    /\ d.crowdfundingshare.t = "absent"
    /\ \A name \in ShareFields : ShareInRange(name, d[name])
    /\ ShareSum(d) = MaxPercent

\* the call stored its payload and emitted the one event
Accepted ==
    /\ LastCall.result = "Ok"
    /\ CrmData = [LastCall.before EXCEPT ![LastKey] = Some(LastCall.crmdata)]
    /\ events = Append(LastCall.eventsBefore, CrmAdded(LastCall.origin, LastCall.crmid))

----------------------------------------------------------------------------
(* C5 *)

----------------------------------------------------------------------------
(* C6 *)

\* the document differs from an acceptable one in the value of one share, the
\* share of field `name`, which is still a bare decimal
OneShareChanged(d, name) ==
    /\ d[name].t = "num"
    /\ LET others == ShareSum(d) - ShareOf(d[name])
           was == MaxPercent - others
       IN  /\ was >= 0
           /\ was # d[name].n
           /\ Acceptable([d EXCEPT ![name] = Num(was)])

----------------------------------------------------------------------------
(* C7 *)

\* C7 as the specification states it: othercontractsshare is optional. A
\* document that leaves it out, otherwise valid, its remaining shares summing
\* to 100, is accepted.
C7_OtherContractsShareOptional ==
    OfDocument /\ FreshKey
      /\ Doc.othercontractsshare.t = "absent"
      /\ Acceptable([Doc EXCEPT !.othercontractsshare = Num(0)]) =>
        Accepted

----------------------------------------------------------------------------
(* C8 *)

\* C8 as the specification states it: the crowd funding share is read from
\* the documented key crowdfundingshare. A document that gives it there,
\* otherwise valid, the four shares summing to 100, is accepted.
C8_DocumentedCrowdKeyRead ==
    OfDocument /\ FreshKey
      /\ Doc.crodwfundingshares.t = "absent"
      /\ InRange(Doc.crowdfundingshare, 0, MaxPercent)
      /\ Acceptable([Doc EXCEPT !.crodwfundingshares = Doc.crowdfundingshare,
                                !.crowdfundingshare = Absent]) =>
        Accepted

----------------------------------------------------------------------------
(* The call of a helper that returned *)

Returned == fcall # None /\ fret # None
ReturnedFrom(fn) == Returned /\ fcall[1].fn = fn

----------------------------------------------------------------------------
(* C9 *)

\* C9: json_get_value gives back the value it is asked for. For every key and
\* every value v that is a quoted string without quote or backslash, or a bare
\* decimal ended by a comma or by the closing brace, the value extracted for
\* the key from the document {"key":v} is v (without its quotes).
C9_ExtractRoundTrip ==
    ReturnedFrom("json_get_value") /\ fcall[1].shape \in {"quoted", "bare}", "bare,"} =>
        fret[1] = fcall[1].v

\* a quoted value made of a colon, a comma and a closing brace, which end a
\* value outside a string
C9_Witness ==
    /\ ReturnedFrom("json_get_value")
    /\ fcall[1].shape = "quoted"
    /\ fcall[1].v = <<":", ",", "}">>
    /\ fret[1] = <<":", ",", "}">>

----------------------------------------------------------------------------
(* C10 *)

\* C10 as the specification states it: json_check_validity returns true on
\* every well-formed flat JSON object whose values are strings (with the
\* escapes \" and \\) or decimals.
C10_FlatObjectsValid ==
    ReturnedFrom("json_check_validity") /\ fcall[1].shape = "flat" => fret[1] = TRUE

----------------------------------------------------------------------------
(* C11 *)

\* the first byte is { or [, the last } or ], and they are of the same kind
OuterPaired(j) ==
    /\ Len(j) >= 2
    /\ \/ j[1] = "{" /\ j[Len(j)] = "}"
       \/ j[1] = "[" /\ j[Len(j)] = "]"

\* C11: json_check_validity returns false for every byte string of fewer than
\* two bytes, for every document that does not start with { or [, that does
\* not end with } or ], or whose first and last bytes are not of the same
\* kind, whatever lies between them.
C11_OuterBracketsRequired ==
    ReturnedFrom("json_check_validity") /\ ~OuterPaired(fcall[1].j) => fret[1] = FALSE

\* { closed by ], with a balanced [] pair inside: the scan alone would accept
C11_Witness ==
    /\ ReturnedFrom("json_check_validity")
    /\ fcall[1].j = <<"{", "[", "]">>
    /\ fret[1] = FALSE

----------------------------------------------------------------------------
(* C13 *)

\* C13: once the length and the outer brackets are accepted,
\* json_check_validity returns true exactly when the scan ends with s (outside
\* a string), d (the colon flag) and ps (brackets balanced) all true; pg
\* (braces balanced) has no part in the result.
C13_ThreeFlagsDecide ==
    ReturnedFrom("json_check_validity") /\ OuterPaired(fcall[1].j) =>
        LET st == cv_flags(fcall[1].j)
        IN  fret[1] = (st.s /\ st.d /\ st.ps)

\* [{] : the brace is never closed, pg ends false, and the document is accepted
C13_Witness ==
    /\ ReturnedFrom("json_check_validity")
    /\ fcall[1].j = <<"[", "{", "]">>
    /\ cv_flags(fcall[1].j).pg = FALSE
    /\ fret[1] = TRUE

----------------------------------------------------------------------------
(* C12 *)

\* the four operands of the sum of line 252 are at most 100 each, so that the
\* sum is at most 400 and cannot leave u64
SumOperandsSmall(f) ==
    /\ f.mastersharevalue <= MaxPercent
    /\ f.compositionsharevalue <= MaxPercent
    /\ f.othercontractssharevalue <= MaxPercent
    /\ f.crodwfundingsharevalue <= MaxPercent

\* the call got as far as line 252
SumReached == LastCall.result \in {"InvalidTotalShares", "Ok"}

\* C12: nothing panics. For every document and key, json_check_validity and
\* json_get_value unwrap only indices inside the document and never take
\* jl-1 of an empty one, and they return a boolean, respectively a byte
\* string; new_crmdata returns Ok or one of its errors, and whenever it gets
\* to the sum of the four shares each of them is at most 100.
C12_NoPanic ==
    /\ ReturnedFrom("json_check_validity") =>
          /\ ~json_check_validity_panics(fcall[1].j)
          /\ fret[1] \in BOOLEAN
    /\ ReturnedFrom("json_get_value") =>
          /\ ~json_get_value_panics(fcall[1].j, fcall[1].key)
          /\ DOMAIN fret[1] = 1..Len(fret[1])
          /\ Len(fret[1]) <= Len(fcall[1].j)
    /\ Called =>
          /\ LastCall.result \in {"Ok"} \cup {ErrorOf[n] : n \in 1..Len(ErrorOf)}
          /\ SumReached => SumOperandsSmall(LastFields)

\* the pattern "k": found at the very end of the document: nothing is left
\* to scan, and the value is empty
C12_Witness ==
    /\ ReturnedFrom("json_get_value")
    /\ fcall[1].j = <<QUOTE, "k", QUOTE, ":">>
    /\ fcall[1].key = <<"k">>
    /\ gv_found(fcall[1].j, gv_pattern(fcall[1].key)) = {0}
    /\ fret[1] = <<>>

----------------------------------------------------------------------------
(* C14 *)

\* C14 as the specification states it: when the value of the key is a
\* bracketed list of bare numbers or quoted strings, json_get_value returns the
\* bytes of the list from [ through its closing ] and nothing after it, whether
\* the list ends the document or another field follows.
C14_ArrayVerbatim ==
    ReturnedFrom("json_get_value") /\ fcall[1].shape \in {"array}", "array,"} =>
        fret[1] = fcall[1].v

----------------------------------------------------------------------------
(* C16 *)

\* the map as the call found it, with every key but the call's own emptied
OwnKeyOnly ==
    [k \in DOMAIN LastCall.before |-> IF k = LastKey THEN LastCall.before[k] ELSE None]

\* C16: a call for (owner, crmid) touches that key alone. Every record under
\* another owner or another id is the same after the call as before, whether
\* the call succeeds or fails; the result of the call is what it would be
\* were all other keys empty, and DuplicatedCrmId is returned only when the
\* call's own key holds a record.
C16_KeyIsolation ==
    Called =>
        /\ \A k \in DOMAIN CrmData : k # LastKey => CrmData[k] = LastCall.before[k]
        /\ LastCall.result =
              new_crmdata_result(OwnKeyOnly, LastCall.origin, LastCall.crmid, LastCall.crmdata)
        /\ LastCall.result = "DuplicatedCrmId" => LastCall.before[LastKey] # None

\* a call that succeeds although another owner holds a record under the same
\* id
C16_Witness ==
    /\ Called
    /\ LastCall.result = "Ok"
    /\ \E o \in Owners : o # LastCall.origin /\ LastCall.before[o, LastCall.crmid] # None
    /\ \A k \in DOMAIN CrmData : k # LastKey => CrmData[k] = LastCall.before[k]

----------------------------------------------------------------------------
(* C17 *)

\* how many CrmAdded events carry the key
AddedCount(k) ==
    Cardinality({n \in 1..Len(events) : events[n] = CrmAdded(k[1], k[2])})
StoredKeys == {k \in DOMAIN CrmData : CrmData[k] # None}

\* C17: the events mirror the map. Every stored key has exactly one CrmAdded
\* event and every other key none, there are as many events as records and
\* none of them is CrmChanged; a call that succeeds appends the one event of
\* the key it inserted, a call that fails appends nothing.
C17_EventsMirrorLedger ==
    /\ \A k \in DOMAIN CrmData : AddedCount(k) = IF k \in StoredKeys THEN 1 ELSE 0
    /\ \A n \in 1..Len(events) : events[n].event = "CrmAdded"
    /\ Len(events) = Cardinality(StoredKeys)
    /\ Called =>
          /\ LastCall.result = "Ok" =>
                /\ events = Append(LastCall.eventsBefore,
                                   CrmAdded(LastCall.origin, LastCall.crmid))
                /\ CrmData[LastKey] = Some(LastCall.crmdata)
          /\ LastCall.result # "Ok" => events = LastCall.eventsBefore

\* a second record was just stored, under another key than the first, and the
\* two events are those of the two keys
C17_Witness ==
    /\ Called
    /\ LastCall.result = "Ok"
    /\ Len(events) = 2
    /\ events[1] # events[2]
    /\ Cardinality(StoredKeys) = 2

----------------------------------------------------------------------------
(* C15 *)

\* no insert came between the checks of the last call and its own insert
RanAtomically == LastCall.checkedAt = Len(LastCall.eventsBefore)

\* C15: the key is kept unique by the lookup alone. A call that runs
\* atomically and succeeds found its key free, so that serialised calls store
\* a key at most once. A call whose insert comes after another insert for the
\* same key made since its checks succeeds all the same: it overwrites the
\* payload stored by the other and emits one more CrmAdded for the key.
C15_CheckThenInsertRace ==
    Called =>
        /\ ~RanAtomically => LastCall.result = "Ok"
        /\ LastCall.result = "Ok" =>
              /\ RanAtomically =>
                    LastCall.before[LastKey] = None /\ AddedCount(LastKey) = 1
              /\ CrmData[LastKey] = Some(LastCall.crmdata)
              /\ events = Append(LastCall.eventsBefore,
                                 CrmAdded(LastCall.origin, LastCall.crmid))
              /\ LastCall.before[LastKey] # None =>
                    /\ ~RanAtomically
                    /\ AddedCount(LastKey) >= 2

\* both checks ran on the empty map, then both inserts: two events for the
\* one key, and the second payload in place of the first
C15_Witness ==
    /\ Called /\ LastCall.result = "Ok"
    /\ LastCall.checkedAt = 0
    /\ LastCall.before[LastKey] # None
    /\ LastCall.before[LastKey] # Some(LastCall.crmdata)
    /\ CrmData[LastKey] = Some(LastCall.crmdata)
    /\ events = <<CrmAdded(LastCall.origin, LastCall.crmid),
                  CrmAdded(LastCall.origin, LastCall.crmid)>>

=============================================================================
